---- MODULE Spec2Model ----
(***************************************************************************)
(* A model of yobicrypto's Balloon hashing (src/src/balloon.rs) and of the *)
(* proof of work built on it (src/src/pow.rs).                             *)
(*                                                                         *)
(* A Digest is a sequence of 64 bytes, ordered as the derived Ord of       *)
(* GenericArray<u8, U64> orders it: lexicographically, which is the        *)
(* big-endian numeric order.  SHA-512 is an external primitive; it is      *)
(* modelled as an arbitrary member of a finite family of deterministic     *)
(* functions from byte strings to digests: the byte string is reduced to   *)
(* one of KeyCount classes and the variable sha, fixed at Init, gives the  *)
(* digest of each class.  Every assignment of sample digests to classes is *)
(* explored.                                                               *)
(*                                                                         *)
(* The nonce of the code is a u64.  NonceMax stands for u64::max_value():  *)
(* the model keeps the loop of mine() as it is written and scales the      *)
(* width of the nonce space.  U32Max stands in the same way for            *)
(* u32::max_value() in the search of from_memory, and CntMax for           *)
(* u32::max_value() in the counter of hash(), whose overflow is a panic in *)
(* a build with overflow checks and a wrap-around in one without.  The     *)
(* conversion of a u32 to Memory keeps its true width: it goes through an  *)
(* f32 of 24 significant bits.                                             *)
(*                                                                         *)
(* Each specification is one object and the calls made on it: a PoW (Spec, *)
(* SpecApi, SpecDifficulty, SpecFields), a PoWTarget or a PoW              *)
(* (SpecTarget), a BalloonParams value (SpecParams, SpecFromMemory,        *)
(* SpecFromMemoryFair), a BalloonHasher (SpecHasher, SpecRun), a Memory    *)
(* value (SpecMemory), and the three from_memory constructors              *)
(* (SpecFromMemoryCallers).                                                *)
(***************************************************************************)
EXTENDS Integers, Sequences, FiniteSets, TLC

VARIABLES
    sha,        \* the hash primitive: class of the input -> Digest
    pow,        \* None, or Some(the PoW object)
    pc,         \* "idle", "mining" inside the loop of PoW::mine, or
                \* "searching" inside the loop of BalloonParams::from_memory
    nonce,      \* mine(): the local `nonce`
    target_digest, \* mine(): the local `target_digest`
    last,       \* the last call that returned: its name, result and hash count
    params_obj, \* None, or Some(a BalloonParams value)
    hasher_obj, \* None, or Some(a BalloonHasher)
    target_obj, \* None, or Some(a PoWTarget: its digest)
    target_memory, \* from_memory(): its argument, None outside the call
    memory_obj  \* None, or Some(a Memory value)

vars == <<sha, pow, pc, nonce, target_digest, last,
          params_obj, hasher_obj, target_obj, target_memory, memory_obj>>

\* The objects that the calls on a PoW leave alone.
others == <<params_obj, hasher_obj, target_obj, target_memory, memory_obj>>

-----------------------------------------------------------------------------
(* Bounds of the model *)

NonceMax == 2

KeyCount == 3

\* Stands for u32::max_value() in from_memory, whose search saturates there.
U32Max == 4

\* Stands for u32::max_value() in the counter cnt of BalloonHasher::hash.
CntMax == 11

\* The largest magnitude of a Memory value that the arithmetic explored
\* builds; the type itself is unbounded.
MemoryCap == 6

-----------------------------------------------------------------------------
(* Program constants *)

DigestLen == 64

MinDifficulty == 3

MaxBits == 63

MinDelta == 3

-----------------------------------------------------------------------------
(* Option and Result *)

None == <<>>

Some(x) == <<x>>

Ok(v) == [ok |-> TRUE, val |-> v]

Err(e) == [ok |-> FALSE, err |-> e]

-----------------------------------------------------------------------------
(* Bytes *)

Rep(b, n) == [i \in 1..n |-> b]

\* byteorder's write_u32::<BigEndian> / write_u64::<BigEndian>: the k bytes
\* of n, most significant first.
RECURSIVE BigEndian(_, _)
BigEndian(n, k) ==
    IF k = 0 THEN <<>> ELSE BigEndian(n \div 256, k - 1) \o <<n % 256>>

BE32(n) == BigEndian(n, 4)

BE64(n) == BigEndian(n, 8)

\* The sum of the bytes b[lo..hi], by halves down to runs of eight.
RECURSIVE SumRange(_, _, _)
SumRange(b, lo, hi) ==
    IF lo > hi THEN 0
    ELSE IF hi - lo = 7
         THEN b[lo] + b[lo + 1] + b[lo + 2] + b[lo + 3]
              + b[lo + 4] + b[lo + 5] + b[lo + 6] + b[hi]
    ELSE IF hi - lo < 7 THEN b[lo] + SumRange(b, lo + 1, hi)
    ELSE LET mid == lo + 8 * ((hi - lo + 9) \div 16) - 1
         IN  SumRange(b, lo, mid) + SumRange(b, mid + 1, hi)

\* balloon.rs 277-280: the sum of the (first 64) bytes of a digest.
SumBytes(b) == SumRange(b, 1, Len(b))

-----------------------------------------------------------------------------
(* Digest (hash.rs) *)

\* Digest::default(): 64 zero bytes.
DigestDefault == Rep(0, DigestLen)

\* The derived Ord of Digest: lexicographic on the bytes, decided at the
\* first index where the two differ.
LexLt(a, b) ==
    LET diff == {i \in 1..Len(a) : a[i] # b[i]}
    IN  /\ diff # {}
        /\ LET k == CHOOSE i \in diff : \A j \in diff : i <= j
           IN  a[k] < b[k]

DigestLt(a, b) == LexLt(a, b)

DigestGe(a, b) == ~DigestLt(a, b)

\* The class of a byte string under the modelled primitive.
Compress(b) == (Len(b) + SumBytes(b)) % KeyCount

\* Digest::hash: deterministic, decided by sha.
DigestHash(b) == sha[Compress(b)]

-----------------------------------------------------------------------------
(* PoWTarget (pow.rs) *)

RECURSIVE Pow2(_)
Pow2(n) == IF n = 0 THEN 1 ELSE 2 * Pow2(n - 1)

\* Byte j (1..8) of the big-endian form of u64::max_value() >> bits: the
\* shift clears the top `bits` bits, of which byte j holds bits
\* 8(j-1) .. 8j-1.
ShiftedMaxByte(bits, j) ==
    LET z == bits - 8 * (j - 1)
    IN  IF z <= 0 THEN 255
        ELSE IF z >= 8 THEN 0
        ELSE 255 \div Pow2(z)

\* Mutant of PoWTargetNew: the shift is one bit short.
PoWTargetNewShiftShort(bits) ==
    IF bits > MaxBits THEN Err("OutOfBound")
    ELSE Ok([j \in 1..8 |-> ShiftedMaxByte(bits - 1, j)] \o Rep(255, 56))

\* PoWTarget::new
PoWTargetNew(bits) ==
    IF bits > MaxBits THEN Err("OutOfBound")
    ELSE Ok([j \in 1..8 |-> ShiftedMaxByte(bits, j)] \o Rep(255, 56))

\* u8::leading_zeros
RECURSIVE LeadingZerosU8(_)
LeadingZerosU8(x) ==
    IF x = 0 THEN 8 ELSE IF x >= 128 THEN 0 ELSE 1 + LeadingZerosU8(2 * x)

\* The leading zero bits of the big-endian number held in b[i..j].
RECURSIVE LeadingZerosFrom(_, _, _)
LeadingZerosFrom(b, i, j) ==
    IF i > j THEN 0
    ELSE IF b[i] = 0 THEN 8 + LeadingZerosFrom(b, i + 1, j)
    ELSE LeadingZerosU8(b[i])

\* Mutant of PoWTargetBits: the zero bits are counted in the first byte alone.
PoWTargetBitsOfFirstByte(t) == Ok(LeadingZerosFrom(t, 1, 1))

\* PoWTarget::bits: BigEndian::read_u64 of the bytes, then leading_zeros
PoWTargetBits(t) == Ok(LeadingZerosFrom(t, 1, 8))

-----------------------------------------------------------------------------
(* Memory (memory.rs): an arbitrary-precision integer *)

\* The significant bits of an f32.
F32Mantissa == 24

\* The number of bits of n > 0.
RECURSIVE BitLength(_)
BitLength(n) == IF n < 2 THEN 1 ELSE 1 + BitLength(n \div 2)

\* `n as f32` for an integer n >= 0: the nearest number with 24
\* significant bits, the even one of two nearest.
ToF32(n) ==
    IF n < Pow2(F32Mantissa) THEN n
    ELSE LET ulp == Pow2(BitLength(n) - F32Mantissa)
             q   == n \div ulp
             r   == n % ulp
         IN  IF 2 * r < ulp \/ (2 * r = ulp /\ q % 2 = 0)
             THEN q * ulp
             ELSE (q + 1) * ulp

\* impl From<u32> for Memory, impl From<i32> for Memory:
\* Integer::from_f32(n as f32).unwrap()
MemoryFrom(n) == ToF32(n)

\* impl From<i32> for Memory on any i32: `n as f32` keeps the sign.
MemoryFromI32(n) == IF n < 0 THEN 0 - ToF32(0 - n) ELSE ToF32(n)

\* Memory::zero, Memory::new: Integer::new()
MemoryZero == 0

\* Memory::one: 1u32.into()
MemoryOne == 1

\* The decimal digits; a string is a sequence of characters.
Digits == <<"0", "1", "2", "3", "4", "5", "6", "7", "8", "9">>

DigitValue(c) == (CHOOSE i \in 1..10 : Digits[i] = c) - 1

IsDigit(c) == \E i \in 1..10 : Digits[i] = c

\* The number written by the digits d, most significant first.
RECURSIVE DecimalValue(_)
DecimalValue(d) ==
    IF d = <<>> THEN 0
    ELSE 10 * DecimalValue(SubSeq(d, 1, Len(d) - 1)) + DigitValue(d[Len(d)])

\* Memory::from_string: Integer::from_str_radix(s, 10), an optional sign
\* and then digits; anything else is the parse error.
MemoryFromString(s) ==
    LET signed == s # <<>> /\ s[1] \in {"-", "+"}
        body   == IF signed THEN Tail(s) ELSE s
    IN  IF body = <<>> \/ \E i \in 1..Len(body) : ~IsDigit(body[i])
        THEN Err("ParseIntegerError")
        ELSE IF signed /\ s[1] = "-" THEN Ok(0 - DecimalValue(body))
        ELSE Ok(DecimalValue(body))

\* impl Add, AddAssign for Memory: output += rhs
MemoryAdd(a, b) == a + b

\* impl Sub, SubAssign for Memory: output -= rhs
MemorySub(a, b) == a - b

\* impl Mul, MulAssign for Memory: output *= rhs
MemoryMul(a, b) == a * b

\* impl Div, DivAssign for Memory: output /= rhs, the quotient of Integer
\* rounded towards zero; the divisor is not zero.
MemoryDiv(a, b) ==
    LET abs(x) == IF x < 0 THEN 0 - x ELSE x
        q == abs(a) \div abs(b)
    IN  IF (a < 0) # (b < 0) THEN 0 - q ELSE q

-----------------------------------------------------------------------------
(* BalloonParams and BalloonHasher (balloon.rs) *)

\* Mutant of BalloonParamsValidate: t_cost is not checked.
BalloonParamsValidateNoTCost(p) ==
    IF p.s_cost = 0 THEN Err("InvalidArgument")
    ELSE IF p.delta < MinDelta THEN Err("InvalidArgument")
    ELSE Ok(TRUE)

\* impl Validate for BalloonParams
BalloonParamsValidate(p) ==
    IF p.s_cost = 0 THEN Err("InvalidArgument")
    ELSE IF p.t_cost = 0 THEN Err("InvalidArgument")
    ELSE IF p.delta < MinDelta THEN Err("InvalidArgument")
    ELSE Ok(TRUE)

\* BalloonParams::new
BalloonParamsNew(s_cost, t_cost, delta) ==
    IF s_cost = 0 THEN Err("InvalidArgument")
    ELSE IF t_cost = 0 THEN Err("InvalidArgument")
    ELSE IF delta < MinDelta THEN Err("InvalidArgument")
    ELSE Ok([s_cost |-> s_cost, t_cost |-> t_cost, delta |-> delta])

\* BalloonParams::default
BalloonParamsDefault == [s_cost |-> 1, t_cost |-> 1, delta |-> 3]

\* BalloonParams::memory
BalloonParamsMemory(p) ==
    LET v == BalloonParamsValidate(p)
    IN  IF ~v.ok THEN v
        ELSE LET a == MemoryFrom(p.s_cost)
                 b == MemoryFrom(p.t_cost)
                 c == MemoryFrom(p.delta)
                 digest_size == MemoryFrom(64)
                 two == MemoryFrom(2)
                 one == MemoryFrom(1)
             IN  Ok(digest_size * (a + (b - one) * (one + (two * (c - one)))))

\* BalloonHasher::new
BalloonHasherNew(salt, params) ==
    LET v == BalloonParamsValidate(params)
    IN  IF ~v.ok THEN v ELSE Ok([salt |-> salt, params |-> params])

\* Mutant of CounterStart: the counter goes on from the hash() before.
CounterStartCarried == IF last.op = "hash" THEN last.hashes ELSE 0

\* hash(), line 222: let mut cnt = 0u32
CounterStart == 0

\* One use of the counter, as hash() makes it: the prefix cnt is written,
\* the slots `reads` of the buffer are read into the input, `other_sum` is
\* the byte sum computed from the digest (-1 if it is not summed) and the
\* digest is written to the slot `write` (-1 if it is not stored).
Use(phase, m, prefix, reads, other_sum, write) ==
    [phase |-> phase, m |-> m, prefix |-> prefix, reads |-> reads,
     other_sum |-> other_sum, write |-> write]

\* Mutant of CounterNext: the counter is not incremented after a use.
CounterStays(cnt) == cnt

\* cnt += 1 on a u32, of which CntMax is the largest value: past it the
\* release build wraps around (the debug build panics, see Overflows).
CounterNext(cnt) == (cnt + 1) % (CntMax + 1)

\* cnt += 1 overflows
Overflows(cnt) == cnt = CntMax

\* Mutant of FillFirst: the salt is left out of buf_0.
FillFirstUnsalted(h, msg) ==
    [buf |-> [m \in 0..(h.params.s_cost - 1) |->
                 IF m = 0 THEN DigestHash(BE32(CounterStart) \o msg)
                 ELSE DigestDefault],
     cnt |-> CounterNext(CounterStart),
     calls |-> 1,
     overflow |-> Overflows(CounterStart),
     trace |-> <<Use("fill", 0, CounterStart, {}, -1, 0)>>]

\* hash(), lines 222-235: the buffer of s_cost default digests, and buf[0].
\* The state of a run is the buffer (indexed from 0), the counter cnt, the
\* number of calls of Digest::hash made so far, whether cnt has overflowed
\* and the uses of the counter so far.
FillFirst(h, msg) ==
    [buf |-> [m \in 0..(h.params.s_cost - 1) |->
                 IF m = 0 THEN DigestHash(BE32(CounterStart) \o msg \o h.salt)
                 ELSE DigestDefault],
     cnt |-> CounterNext(CounterStart),
     calls |-> 1,
     overflow |-> Overflows(CounterStart),
     trace |-> <<Use("fill", 0, CounterStart, {}, -1, 0)>>]

\* hash(), lines 237-245: for m in 1..s_cost
RECURSIVE FillLoop(_, _, _)
FillLoop(h, st, m) ==
    IF m >= h.params.s_cost THEN st
    ELSE FillLoop(h,
                  [buf |-> [st.buf EXCEPT
                               ![m] = DigestHash(BE32(st.cnt) \o st.buf[m - 1])],
                   cnt |-> CounterNext(st.cnt),
                   calls |-> st.calls + 1,
                   overflow |-> st.overflow \/ Overflows(st.cnt),
                   trace |-> Append(st.trace,
                                    Use("fill", m, st.cnt, {m - 1}, -1, m))],
                  m + 1)

\* hash(), lines 261-290: for i in 0..(delta-1)
RECURSIVE MixInner(_, _, _, _, _)
MixInner(h, st, t, m, i) ==
    IF i >= h.params.delta - 1 THEN st
    ELSE LET idx_block == DigestHash(BE32(t) \o BE32(m) \o BE32(i))
             other_buf == DigestHash(BE32(st.cnt) \o h.salt \o idx_block)
             other_sum == SumBytes(other_buf)
             other     == other_sum % h.params.s_cost
             cnt_1     == CounterNext(st.cnt)
             buf_i_2   == BE32(cnt_1) \o st.buf[m] \o st.buf[other]
         IN  MixInner(h,
                      [buf |-> [st.buf EXCEPT ![m] = DigestHash(buf_i_2)],
                       cnt |-> CounterNext(cnt_1),
                       calls |-> st.calls + 3,
                       overflow |-> \/ st.overflow
                                    \/ Overflows(st.cnt)
                                    \/ Overflows(cnt_1),
                       trace |-> st.trace \o
                           <<Use("mix", m, st.cnt, {}, other_sum, -1),
                             Use("mix", m, cnt_1, {m, other}, -1, m)>>],
                      t, m, i + 1)

\* Mutant of MixLast: the mixing goes on to the last slot.
MixLastIncluded(h) == h.params.s_cost

\* hash(), line 250: the exclusive end of `1..(s_cost-1)`
MixLast(h) == h.params.s_cost - 1

\* hash(), lines 250-291: for m in 1..(s_cost-1)
RECURSIVE MixSlots(_, _, _, _)
MixSlots(h, st, t, m) ==
    IF m >= MixLast(h) THEN st
    ELSE LET prev_m  == (m - 1) % h.params.s_cost
             prev    == st.buf[prev_m]
             buf_m_2 == BE32(st.cnt) \o prev \o st.buf[m]
             st1     == [buf |-> [st.buf EXCEPT ![m] = DigestHash(buf_m_2)],
                         cnt |-> CounterNext(st.cnt),
                         calls |-> st.calls + 1,
                         overflow |-> st.overflow \/ Overflows(st.cnt),
                         trace |-> Append(st.trace,
                                          Use("mix", m, st.cnt, {prev_m, m},
                                              -1, m))]
         IN  MixSlots(h, MixInner(h, st1, t, m, 0), t, m + 1)

\* hash(), lines 248-292: for t in 0..(t_cost-1)
RECURSIVE MixRounds(_, _, _)
MixRounds(h, st, t) ==
    IF t >= h.params.t_cost - 1 THEN st
    ELSE MixRounds(h, MixSlots(h, st, t, 1), t + 1)

\* The run of hash() on valid params: fill, then mix.
BalloonRun(h, msg) == MixRounds(h, FillLoop(h, FillFirst(h, msg), 1), 0)

\* Mutant of ResultSlot: a slot that the mix phase writes is returned.
ResultSlotMixed(h) == IF h.params.s_cost >= 3 THEN 1 ELSE h.params.s_cost - 1

\* hash(), line 294: the slot returned, buf[s_cost - 1]
ResultSlot(h) == h.params.s_cost - 1

\* Mutant of BalloonHasherHashCall: validate() is not called first, and a
\* run that the code survives (s_cost, t_cost >= 1) goes on.
BalloonHasherHashCallUnvalidated(h, msg) ==
    IF h.params.s_cost = 0 \/ h.params.t_cost = 0
    THEN [result |-> Err("InvalidArgument"), calls |-> 0, slots |-> 0]
    ELSE LET run == BalloonRun(h, msg)
         IN  [result |-> Ok(run.buf[ResultSlot(h)]),
              calls |-> run.calls, slots |-> h.params.s_cost]

\* BalloonHasher::hash, the whole call: its result, the calls of
\* Digest::hash it made and the buffer slots it allocated.
BalloonHasherHashCall(h, msg) ==
    LET v == BalloonParamsValidate(h.params)
    IN  IF ~v.ok THEN [result |-> v, calls |-> 0, slots |-> 0]
        ELSE LET run == BalloonRun(h, msg)
             IN  [result |-> Ok(run.buf[ResultSlot(h)]),
                  calls |-> run.calls, slots |-> h.params.s_cost]

\* BalloonHasher::hash: its result
BalloonHasherHash(h, msg) == BalloonHasherHashCall(h, msg).result

\* The builds of the crate: with overflow checks (debug) and without
\* (release).
Builds == {"debug", "release"}

\* The uses made before `cnt += 1` overflows for the first time: those up
\* to the first one whose prefix is the largest value of the counter.
UntilOverflow(trace) ==
    LET first == CHOOSE k \in 1..Len(trace) :
                     /\ trace[k].prefix = CntMax
                     /\ \A j \in 1..(k - 1) : trace[j].prefix # CntMax
    IN  SubSeq(trace, 1, first)

\* Mutant of BalloonHasherHashBuilt: validate() is not called first.
BalloonHasherHashBuiltUnvalidated(build, h, msg) ==
    LET run == BalloonRun(h, msg)
    IN  [result |-> Ok(run.buf[ResultSlot(h)]), trace |-> run.trace]

\* BalloonHasher::hash as a build runs it, with the uses of the counter it
\* made: where `cnt += 1` overflows, the debug build panics there and the
\* release build goes on with the counter wrapped around.
BalloonHasherHashBuilt(build, h, msg) ==
    LET v == BalloonParamsValidate(h.params)
    IN  IF ~v.ok THEN [result |-> v, trace |-> <<>>]
        ELSE LET run == BalloonRun(h, msg)
             IN  IF run.overflow /\ build = "debug"
                 THEN [result |-> Err("panic"),
                       trace |-> UntilOverflow(run.trace)]
                 ELSE [result |-> Ok(run.buf[ResultSlot(h)]),
                       trace |-> run.trace]

-----------------------------------------------------------------------------
(* BalloonParams::from_memory (balloon.rs) *)

\* Mutant of BelowDefault: <= for <.
BelowDefaultOrEqual(target, default_memory) == target <= default_memory

\* from_memory() 62: the target is below the memory of the default params
BelowDefault(target, default_memory) == target < default_memory

\* Mutant of Reached: the operands are exchanged.
ReachedReversed(test_memory, target) == target >= test_memory

\* from_memory() 75, 83, 91: the memory of the params reaches the target
Reached(test_memory, target) == test_memory >= target

\* Mutant of Increment: the u32 wraps around past u32::max_value().
IncrementWrapping(x) == (x + 1) % (U32Max + 1)

\* from_memory() 71, 79, 87: x += 1 - (x / u32::max_value())
Increment(x) == x + (1 - (x \div U32Max))

\* Mutant of SearchOrder: t_cost is incremented before s_cost.
SearchOrderTFirst == <<"t_cost", "s_cost", "delta">>

\* from_memory() 71, 79, 87: the fields in the order the loop increments
\* them
SearchOrder == <<"s_cost", "t_cost", "delta">>

\* from_memory() 71, 79, 87: the k-th increment of an iteration
Incremented(p, k) == [p EXCEPT ![SearchOrder[k]] = Increment(@)]

\* from_memory() 95-97: the three fields are at u32::max_value()
Saturated(p) == p.s_cost = U32Max /\ p.t_cost = U32Max /\ p.delta = U32Max

\* from_memory() 70-103 as its callers see it: the loop run from the params
\* p to its return.
RECURSIVE FromMemorySearch(_, _)
FromMemorySearch(p, target) ==
    LET p1 == Incremented(p, 1)
        m1 == BalloonParamsMemory(p1)
        p2 == Incremented(p1, 2)
        m2 == BalloonParamsMemory(p2)
        p3 == Incremented(p2, 3)
        m3 == BalloonParamsMemory(p3)
    IN  IF ~m1.ok THEN m1
        ELSE IF Reached(m1.val, target) THEN Ok(p1)
        ELSE IF ~m2.ok THEN m2
        ELSE IF Reached(m2.val, target) THEN Ok(p2)
        ELSE IF ~m3.ok THEN m3
        ELSE IF Reached(m3.val, target) THEN Ok(p3)
        ELSE IF Saturated(p3) THEN Err("NotFound")
        ELSE FromMemorySearch(p3, target)

\* BalloonParams::from_memory as its callers see it: the whole call.
BalloonParamsFromMemory(target) ==
    LET default_memory == BalloonParamsMemory(BalloonParamsDefault)
    IN  IF ~default_memory.ok THEN default_memory
        ELSE IF BelowDefault(target, default_memory.val)
             THEN Err("InvalidArgument")
        ELSE IF target = default_memory.val THEN Ok(BalloonParamsDefault)
        ELSE FromMemorySearch(BalloonParamsDefault, target)

\* Mutant of BalloonHasherFromMemory: the error of from_memory is dropped
\* and the default params are used.
BalloonHasherFromMemoryOrDefault(salt, memory) ==
    LET params == BalloonParamsFromMemory(memory)
    IN  IF ~params.ok THEN BalloonHasherNew(salt, BalloonParamsDefault)
        ELSE BalloonHasherNew(salt, params.val)

\* BalloonHasher::from_memory
BalloonHasherFromMemory(salt, memory) ==
    LET params == BalloonParamsFromMemory(memory)
    IN  IF ~params.ok THEN params
        ELSE BalloonHasherNew(salt, params.val)

-----------------------------------------------------------------------------
(* PoW (pow.rs) *)

\* Mutant of PoWNew: the upper bound of the difficulty is off by one.
PoWNewUpToMaxBitsPlusOne(salt, params, difficulty) ==
    IF difficulty < MinDifficulty \/ difficulty > MaxBits + 1
    THEN Err("OutOfBound")
    ELSE LET v == BalloonParamsValidate(params)
         IN  IF ~v.ok THEN v
             ELSE Ok([salt |-> salt, params |-> params,
                      difficulty |-> difficulty,
                      nonce |-> None, digest |-> None])

\* PoW::new
PoWNew(salt, params, difficulty) ==
    IF difficulty < MinDifficulty \/ difficulty > MaxBits
    THEN Err("OutOfBound")
    ELSE LET v == BalloonParamsValidate(params)
         IN  IF ~v.ok THEN v
             ELSE Ok([salt |-> salt, params |-> params,
                      difficulty |-> difficulty,
                      nonce |-> None, digest |-> None])

\* PoW::from_memory
PoWFromMemory(salt, memory, difficulty) ==
    LET params == BalloonParamsFromMemory(memory)
    IN  IF ~params.ok THEN params
        ELSE PoWNew(salt, params.val, difficulty)

\* PoW::hasher
PoWHasher(p) == BalloonHasherNew(p.salt, p.params)

\* Mutant of PoWTarget: the bound is left to PoWTarget::new.
PoWTargetUnchecked(p) == PoWTargetNew(p.difficulty)

\* PoW::target
PoWTarget(p) ==
    IF p.difficulty < MinDifficulty \/ p.difficulty > MaxBits
    THEN Err("OutOfBound")
    ELSE PoWTargetNew(p.difficulty)

\* PoW::target_bits
PoWTargetBitsOf(p) ==
    LET t == PoWTarget(p)
    IN  IF ~t.ok THEN t ELSE PoWTargetBits(t.val)

\* mine() 181-183 and verify() 214-216: digest_buf = salt || be64(nonce)
DigestBuf(p, n) == p.salt \o BE64(n)

\* mine() 179-185 and verify() 218-219: the hasher, then its hash of
\* digest_buf; either may fail.
HashNonce(p, n) ==
    LET balloon == PoWHasher(p)
    IN  IF ~balloon.ok THEN balloon
        ELSE BalloonHasherHash(balloon.val, DigestBuf(p, n))

\* Mutant of FirstNonce: on a PoW that holds a nonce the search resumes
\* after it.
FirstNonceResumed ==
    IF pow # None /\ pow[1].nonce # None
    THEN (pow[1].nonce[1] + 1) % (NonceMax + 1)
    ELSE 0

\* Mutant of FirstNonce: the search starts after nonce 0.
FirstNonceSkipsZero == 0 + 1

\* mine() 176: the first nonce tried
FirstNonce == 0

\* Mutant of Accepted: <= for <.
AcceptedLe(digest, target) == ~DigestLt(target, digest)

\* Mutant of Accepted: the comparison with the target is lost.
AcceptedAlways(digest, target) == TRUE

\* mine() 186: the digest is accepted
Accepted(digest, target) == DigestLt(digest, target)

\* Mutant of StoreResult: the digest is not stored.
StoreNonceOnly(p, n, digest) == [p EXCEPT !.nonce = Some(n)]

\* mine() 187-188: the nonce and the digest found are stored
StoreResult(p, n, digest) ==
    [p EXCEPT !.nonce = Some(n), !.digest = Some(digest)]

\* Mutant of Exhausted: the check comes one nonce late.
ExhaustedLate(n) == n = NonceMax + 1

\* mine() 191: the nonce space is exhausted
Exhausted(n) == n = NonceMax

\* Mutant of MissesTarget: > for >=.
MissesTargetStrictly(digest, target) == DigestLt(target, digest)

\* verify() 205: the stored digest misses the target
MissesTarget(digest, target) == DigestGe(digest, target)

\* Mutant of Differs: the recomputed digest is not compared.
DiffersNever(digest, recomputed) == FALSE

\* verify() 220: the recomputed digest is not the stored one
Differs(digest, recomputed) == digest # recomputed

\* Mutant of VerifyNoDigest: an error, as validate() gives.
VerifyNoDigestFails == [res |-> "NotFound", hashes |-> 0]

\* verify() 223-225: no digest is stored
VerifyNoDigest == [res |-> "Ok(false)", hashes |-> 0]

\* Mutant of PoWVerify: the nonce is looked at before the digest is
\* compared with the target.
PoWVerifyNonceFirst(p) ==
    IF p.digest = None THEN VerifyNoDigest
    ELSE IF p.nonce = None THEN [res |-> "Ok(false)", hashes |-> 0]
    ELSE LET digest == p.digest[1]
             target == PoWTarget(p)
         IN  IF ~target.ok THEN [res |-> target.err, hashes |-> 0]
             ELSE IF MissesTarget(digest, target.val)
                  THEN [res |-> "InvalidDigest", hashes |-> 0]
             ELSE LET d == HashNonce(p, p.nonce[1])
                  IN  IF ~d.ok THEN [res |-> d.err, hashes |-> 0]
                      ELSE IF Differs(digest, d.val)
                           THEN [res |-> "InvalidDigest", hashes |-> 1]
                      ELSE [res |-> "Ok(true)", hashes |-> 1]

\* PoW::verify: its result and the number of Balloon hashes it computed.
PoWVerify(p) ==
    IF p.digest = None THEN VerifyNoDigest
    ELSE LET digest == p.digest[1]
             target == PoWTarget(p)
         IN  IF ~target.ok THEN [res |-> target.err, hashes |-> 0]
             ELSE IF MissesTarget(digest, target.val)
                  THEN [res |-> "InvalidDigest", hashes |-> 0]
             ELSE IF p.nonce = None THEN [res |-> "Ok(false)", hashes |-> 0]
             ELSE LET d == HashNonce(p, p.nonce[1])
                  IN  IF ~d.ok THEN [res |-> d.err, hashes |-> 0]
                      ELSE IF Differs(digest, d.val)
                           THEN [res |-> "InvalidDigest", hashes |-> 1]
                      ELSE [res |-> "Ok(true)", hashes |-> 1]

\* Mutant of PoWValidate: the test of `mined` is inverted.
PoWValidateInverted(p) ==
    LET mined == PoWVerify(p)
    IN  IF mined.res \notin {"Ok(true)", "Ok(false)"} THEN mined
        ELSE IF mined.res = "Ok(true)"
             THEN [res |-> "NotFound", hashes |-> mined.hashes]
        ELSE [res |-> "Ok", hashes |-> mined.hashes]

\* impl Validate for PoW
PoWValidate(p) ==
    LET mined == PoWVerify(p)
    IN  IF mined.res \notin {"Ok(true)", "Ok(false)"} THEN mined
        ELSE IF mined.res = "Ok(false)"
             THEN [res |-> "NotFound", hashes |-> mined.hashes]
        ELSE [res |-> "Ok", hashes |-> mined.hashes]

-----------------------------------------------------------------------------
(* The inputs explored *)

\* PoWTarget::new(3).digest(): 0x1f, then 63 bytes 0xff
Target3 == PoWTargetNew(MinDifficulty).val

\* The digest one below Target3.
Target3Less == [Target3 EXCEPT ![DigestLen] = 254]

\* The digests the primitive may return: below every target, just below
\* the target of difficulty 3, and that target itself.
DigestSamples == {DigestDefault, Target3Less, Target3}

Salts == {DigestDefault, [DigestDefault EXCEPT ![DigestLen] = 1]}

ParamsSamples ==
    { [s_cost |-> 1, t_cost |-> 1, delta |-> 3],
      [s_cost |-> 3, t_cost |-> 2, delta |-> 3],
      [s_cost |-> 0, t_cost |-> 1, delta |-> 3],
      [s_cost |-> 1, t_cost |-> 0, delta |-> 3],
      [s_cost |-> 1, t_cost |-> 1, delta |-> 2] }

Difficulties == {2, 3, 63, 64}

-----------------------------------------------------------------------------
(* The state machine: one PoW object and the calls made on it *)

Self == pow[1]

\* What the last call returned: its name, its result (Ok.., or the
\* ErrorKind), the Balloon hashes it computed and, for new, its arguments,
\* for mine, the nonce it stored if it stored one.
Returned(op, res, hashes, arg) ==
    [op |-> op, res |-> res, hashes |-> hashes, arg |-> arg]

Init ==
    /\ sha \in [0..(KeyCount - 1) -> DigestSamples]
    /\ pow = None
    /\ pc = "idle"
    /\ nonce = 0
    /\ target_digest = <<>>
    /\ last = Returned("none", "Ok", 0, None)
    /\ params_obj = None
    /\ hasher_obj = None
    /\ target_obj = None
    /\ target_memory = None
    /\ memory_obj = None

\* let pow = PoW::new(salt, params, difficulty)
New(salt, params, difficulty) ==
    /\ pc = "idle"
    /\ pow = None
    /\ LET r == PoWNew(salt, params, difficulty)
       IN  /\ pow' = IF r.ok THEN Some(r.val) ELSE None
           /\ last' = Returned("new", IF r.ok THEN "Ok" ELSE r.err, 0,
                               <<salt, params, difficulty>>)
    /\ UNCHANGED <<others, sha, pc, nonce, target_digest>>

\* pow.mine(), lines 175-176: the target and nonce = 0
MineCall ==
    /\ pc = "idle"
    /\ pow # None
    /\ LET t == PoWTarget(Self)
       IN  IF ~t.ok
           THEN /\ last' = Returned("mine", t.err, 0, None)
                /\ UNCHANGED <<pc, nonce, target_digest>>
           ELSE /\ pc' = "mining"
                /\ nonce' = FirstNonce
                /\ target_digest' = t.val
                /\ UNCHANGED last
    /\ UNCHANGED <<others, sha, pow>>

\* pow.mine(), lines 178-198: one iteration of the loop 'mining
MineLoop ==
    /\ pc = "mining"
    /\ LET digest == HashNonce(Self, nonce)
       IN  IF ~digest.ok
           THEN /\ last' = Returned("mine", digest.err, nonce, None)
                /\ pc' = "idle"
                /\ nonce' = 0
                /\ target_digest' = <<>>
                /\ UNCHANGED pow
           ELSE IF Accepted(digest.val, target_digest)
           THEN /\ pow' = Some(StoreResult(Self, nonce, digest.val))
                /\ last' = Returned("mine", "Ok", nonce + 1, Some(nonce))
                /\ pc' = "idle"
                /\ nonce' = 0
                /\ target_digest' = <<>>
           ELSE IF Exhausted(nonce)
           THEN /\ last' = Returned("mine", "Ok", nonce + 1, None)
                /\ pc' = "idle"
                /\ nonce' = 0
                /\ target_digest' = <<>>
                /\ UNCHANGED pow
           ELSE /\ nonce' = nonce + 1
                /\ UNCHANGED <<pow, pc, target_digest, last>>
    /\ UNCHANGED <<others, sha>>

\* pow.verify()
Verify ==
    /\ pc = "idle"
    /\ pow # None
    /\ LET r == PoWVerify(Self)
       IN  last' = Returned("verify", r.res, r.hashes, None)
    /\ UNCHANGED <<others, sha, pow, pc, nonce, target_digest>>

\* pow.validate()
Validate ==
    /\ pc = "idle"
    /\ pow # None
    /\ LET r == PoWValidate(Self)
       IN  last' = Returned("validate", r.res, r.hashes, None)
    /\ UNCHANGED <<others, sha, pow, pc, nonce, target_digest>>

\* pow.digest = d: the field is public (tests/pow.rs 169, 197)
SetDigest(d) ==
    /\ pc = "idle"
    /\ pow # None
    /\ pow' = Some([Self EXCEPT !.digest = d])
    /\ last' = Returned("set", "Ok", 0, None)
    /\ UNCHANGED <<others, sha, pc, nonce, target_digest>>

\* pow.nonce = n: the field is public (tests/pow.rs 170, 198)
SetNonce(n) ==
    /\ pc = "idle"
    /\ pow # None
    /\ pow' = Some([Self EXCEPT !.nonce = n])
    /\ last' = Returned("set", "Ok", 0, None)
    /\ UNCHANGED <<others, sha, pc, nonce, target_digest>>

\* pow.difficulty = d: the field is public (tests/pow.rs 107, 141)
SetDifficulty(d) ==
    /\ pc = "idle"
    /\ pow # None
    /\ pow' = Some([Self EXCEPT !.difficulty = d])
    /\ last' = Returned("set", "Ok", 0, None)
    /\ UNCHANGED <<others, sha, pc, nonce, target_digest>>

\* pow.params = f: the field is public
SetPoWParams(f) ==
    /\ pc = "idle"
    /\ pow # None
    /\ pow' = Some([Self EXCEPT !.params = f])
    /\ last' = Returned("set", "Ok", 0, None)
    /\ UNCHANGED <<others, sha, pc, nonce, target_digest>>

\* pow.target(): the digest of the target is recorded.
Target ==
    /\ pc = "idle"
    /\ pow # None
    /\ LET r == PoWTarget(Self)
       IN  last' = IF r.ok THEN Returned("target", "Ok", 0, Some(r.val))
                   ELSE Returned("target", r.err, 0, None)
    /\ UNCHANGED <<others, sha, pow, pc, nonce, target_digest>>

\* pow.target_bits(): the bits are recorded.
TargetBits ==
    /\ pc = "idle"
    /\ pow # None
    /\ LET r == PoWTargetBitsOf(Self)
       IN  last' = IF r.ok THEN Returned("target_bits", "Ok", 0, Some(r.val))
                   ELSE Returned("target_bits", r.err, 0, None)
    /\ UNCHANGED <<others, sha, pow, pc, nonce, target_digest>>

\* let target = PoWTarget::new(bits)
TargetNew(bits) ==
    /\ target_obj = None
    /\ LET r == PoWTargetNew(bits)
       IN  /\ target_obj' = IF r.ok THEN Some(r.val) ELSE None
           /\ last' = Returned("target_new", IF r.ok THEN "Ok" ELSE r.err, 0,
                               Some(bits))
    /\ UNCHANGED <<sha, pow, pc, nonce, target_digest,
                   params_obj, hasher_obj, target_memory,
                   memory_obj>>

\* target.bits(): the bits are recorded.
TargetObjBits ==
    /\ target_obj # None
    /\ LET r == PoWTargetBits(target_obj[1])
       IN  last' = Returned("bits", "Ok", 0, Some(r.val))
    /\ UNCHANGED <<sha, pow, pc, nonce, target_digest, others>>

\* digest < target.digest(), the test of mine() 186, on a digest d.
Compare(d) ==
    /\ target_obj # None
    /\ last' = Returned("lt",
                        IF Accepted(d, target_obj[1]) THEN "true" ELSE "false",
                        0, Some(d))
    /\ UNCHANGED <<sha, pow, pc, nonce, target_digest, others>>

\* let params = BalloonParams::new(s_cost, t_cost, delta)
ParamsNew(s_cost, t_cost, delta) ==
    /\ pc = "idle"
    /\ params_obj = None
    /\ LET r == BalloonParamsNew(s_cost, t_cost, delta)
       IN  /\ params_obj' = IF r.ok THEN Some(r.val) ELSE None
           /\ last' = Returned("params_new", IF r.ok THEN "Ok" ELSE r.err, 0,
                               <<s_cost, t_cost, delta>>)
    /\ UNCHANGED <<sha, pow, pc, nonce, target_digest,
                   hasher_obj, target_obj, target_memory,
                   memory_obj>>

\* The write of one public field of the params: f is the value written.
SetParams(f) ==
    /\ pc = "idle"
    /\ params_obj # None
    /\ params_obj' = Some(f)
    /\ last' = Returned("set", "Ok", 0, None)
    /\ UNCHANGED <<sha, pow, pc, nonce, target_digest,
                   hasher_obj, target_obj, target_memory,
                   memory_obj>>

\* params.s_cost = v (tests/balloon.rs 71)
SetSCost(v) == SetParams([params_obj[1] EXCEPT !.s_cost = v])

\* params.t_cost = v (tests/balloon.rs 107)
SetTCost(v) == SetParams([params_obj[1] EXCEPT !.t_cost = v])

\* params.delta = v (tests/balloon.rs 156)
SetDelta(v) == SetParams([params_obj[1] EXCEPT !.delta = v])

\* params.validate()
ParamsValidate ==
    /\ pc = "idle"
    /\ params_obj # None
    /\ LET r == BalloonParamsValidate(params_obj[1])
       IN  last' = Returned("params_validate", IF r.ok THEN "Ok" ELSE r.err,
                            0, None)
    /\ UNCHANGED <<sha, pow, pc, nonce, target_digest, others>>

\* let balloon = BalloonHasher::new(salt, params)
HasherNew(salt, f) ==
    /\ pc = "idle"
    /\ LET r == BalloonHasherNew(salt, f)
       IN  /\ hasher_obj' = IF r.ok THEN Some(r.val) ELSE None
           /\ last' = Returned("hasher_new", IF r.ok THEN "Ok" ELSE r.err, 0,
                               <<salt, f>>)
    /\ UNCHANGED <<sha, pow, pc, nonce, target_digest,
                   params_obj, target_obj, target_memory,
                   memory_obj>>

\* balloon.params = f: the fields are public (tests/balloon.rs 156, 184)
SetHasherParams(f) ==
    /\ pc = "idle"
    /\ hasher_obj # None
    /\ hasher_obj' = Some([hasher_obj[1] EXCEPT !.params = f])
    /\ last' = Returned("set", "Ok", 0, None)
    /\ UNCHANGED <<sha, pow, pc, nonce, target_digest,
                   params_obj, target_obj, target_memory,
                   memory_obj>>

\* balloon.hash(msg): the message, the digest if there is one and the
\* slots allocated are recorded.
HasherHash(msg) ==
    /\ pc = "idle"
    /\ hasher_obj # None
    /\ LET r == BalloonHasherHashCall(hasher_obj[1], msg)
       IN  last' = IF r.result.ok
                   THEN Returned("hash", "Ok", r.calls,
                                 <<msg, Some(r.result.val), r.slots>>)
                   ELSE Returned("hash", r.result.err, r.calls,
                                 <<msg, None, r.slots>>)
    /\ UNCHANGED <<sha, pow, pc, nonce, target_digest, others>>

\* balloon.hash(msg) in a build: the message, the digest if there is one,
\* the uses of the counter and the build are recorded.
HasherHashBuilt(build, msg) ==
    /\ pc = "idle"
    /\ hasher_obj # None
    /\ LET r == BalloonHasherHashBuilt(build, hasher_obj[1], msg)
       IN  last' = IF r.result.ok
                   THEN Returned("hash_built", "Ok", Len(r.trace),
                                 <<msg, Some(r.result.val), r.trace, build>>)
                   ELSE Returned("hash_built", r.result.err, Len(r.trace),
                                 <<msg, None, r.trace, build>>)
    /\ UNCHANGED <<sha, pow, pc, nonce, target_digest, others>>

\* params.memory(): the memory is recorded.
ParamsMemory ==
    /\ pc = "idle"
    /\ params_obj # None
    /\ LET r == BalloonParamsMemory(params_obj[1])
       IN  last' = IF r.ok THEN Returned("params_memory", "Ok", 0, Some(r.val))
                   ELSE Returned("params_memory", r.err, 0, None)
    /\ UNCHANGED <<sha, pow, pc, nonce, target_digest, others>>

\* BalloonParams::from_memory(target), lines 59-68: the default params and
\* their memory, and the two tests of the target before the loop.
FromMemoryCall(target) ==
    /\ pc = "idle"
    /\ LET default_memory == BalloonParamsMemory(BalloonParamsDefault)
       IN  IF ~default_memory.ok
           THEN /\ last' = Returned("from_memory", default_memory.err, 0,
                                    Some(target))
                /\ params_obj' = None
                /\ UNCHANGED <<pc, target_memory>>
           ELSE IF BelowDefault(target, default_memory.val)
           THEN /\ last' = Returned("from_memory", "InvalidArgument", 0,
                                    Some(target))
                /\ params_obj' = None
                /\ UNCHANGED <<pc, target_memory>>
           ELSE IF target = default_memory.val
           THEN /\ last' = Returned("from_memory", "Ok", 0, Some(target))
                /\ params_obj' = Some(BalloonParamsDefault)
                /\ UNCHANGED <<pc, target_memory>>
           ELSE /\ pc' = "searching"
                /\ params_obj' = Some(BalloonParamsDefault)
                /\ target_memory' = Some(target)
                /\ UNCHANGED last
    /\ UNCHANGED <<sha, pow, nonce, target_digest, hasher_obj, target_obj,
                   memory_obj>>

\* from_memory() returns res, and the params f if there are any.
FromMemoryReturn(res, f) ==
    /\ last' = Returned("from_memory", res, 0, target_memory)
    /\ params_obj' = f
    /\ pc' = "idle"
    /\ target_memory' = None

\* BalloonParams::from_memory, lines 70-100: one iteration of the loop
FromMemoryLoop ==
    /\ pc = "searching"
    /\ LET target == target_memory[1]
           p1 == Incremented(params_obj[1], 1)
           m1 == BalloonParamsMemory(p1)
           p2 == Incremented(p1, 2)
           m2 == BalloonParamsMemory(p2)
           p3 == Incremented(p2, 3)
           m3 == BalloonParamsMemory(p3)
       IN  IF ~m1.ok THEN FromMemoryReturn(m1.err, None)
           ELSE IF Reached(m1.val, target) THEN FromMemoryReturn("Ok", Some(p1))
           ELSE IF ~m2.ok THEN FromMemoryReturn(m2.err, None)
           ELSE IF Reached(m2.val, target) THEN FromMemoryReturn("Ok", Some(p2))
           ELSE IF ~m3.ok THEN FromMemoryReturn(m3.err, None)
           ELSE IF Reached(m3.val, target) THEN FromMemoryReturn("Ok", Some(p3))
           ELSE IF Saturated(p3) THEN FromMemoryReturn("NotFound", None)
           ELSE /\ params_obj' = Some(p3)
                /\ UNCHANGED <<pc, target_memory, last>>
    /\ UNCHANGED <<sha, pow, nonce, target_digest, hasher_obj, target_obj,
                   memory_obj>>

\* let balloon = BalloonHasher::from_memory(salt, memory)
HasherFromMemory(salt, memory) ==
    /\ pc = "idle"
    /\ hasher_obj = None
    /\ LET r == BalloonHasherFromMemory(salt, memory)
       IN  /\ hasher_obj' = IF r.ok THEN Some(r.val) ELSE None
           /\ last' = Returned("hasher_from_memory",
                               IF r.ok THEN "Ok" ELSE r.err, 0,
                               <<memory, salt>>)
    /\ UNCHANGED <<sha, pow, pc, nonce, target_digest,
                   params_obj, target_obj, target_memory,
                   memory_obj>>

\* let pow = PoW::from_memory(salt, memory, difficulty)
NewFromMemory(salt, memory, difficulty) ==
    /\ pc = "idle"
    /\ pow = None
    /\ LET r == PoWFromMemory(salt, memory, difficulty)
       IN  /\ pow' = IF r.ok THEN Some(r.val) ELSE None
           /\ last' = Returned("pow_from_memory",
                               IF r.ok THEN "Ok" ELSE r.err, 0,
                               <<memory, salt, difficulty>>)
    /\ UNCHANGED <<others, sha, pc, nonce, target_digest>>

\* A Memory value is constructed and kept: v is the Result of the
\* constructor named op, arg its argument.
MemoryConstruct(op, v, arg) ==
    /\ pc = "idle"
    /\ memory_obj' = IF v.ok THEN Some(v.val) ELSE memory_obj
    /\ last' = Returned(op, IF v.ok THEN "Ok" ELSE v.err, 0, Some(arg))
    /\ UNCHANGED <<sha, pow, pc, nonce, target_digest,
                   params_obj, hasher_obj, target_obj, target_memory>>

\* let memory = Memory::zero()
MemoryZeroCall == MemoryConstruct("memory_zero", Ok(MemoryZero), None)

\* let memory = Memory::one()
MemoryOneCall == MemoryConstruct("memory_one", Ok(MemoryOne), None)

\* let memory = Memory::from(n) for a u32 n
MemoryFromU32Call(n) == MemoryConstruct("memory_from_u32", Ok(MemoryFrom(n)), n)

\* let memory = Memory::from(n) for an i32 n
MemoryFromI32Call(n) ==
    MemoryConstruct("memory_from_i32", Ok(MemoryFromI32(n)), n)

\* let memory = Memory::from_string(s)?
MemoryFromStringCall(s) ==
    MemoryConstruct("memory_from_string", MemoryFromString(s), s)

\* memory = memory op rhs, or the assign form memory op= rhs: v is the
\* value computed.  The values explored stay within MemoryCap.
MemoryAssign(op, v, rhs) ==
    /\ pc = "idle"
    /\ v >= 0 - MemoryCap /\ v <= MemoryCap
    /\ memory_obj' = Some(v)
    /\ last' = Returned(op, "Ok", 0, <<memory_obj[1], rhs>>)
    /\ UNCHANGED <<sha, pow, pc, nonce, target_digest,
                   params_obj, hasher_obj, target_obj, target_memory>>

\* memory += rhs
MemoryAddCall(rhs) ==
    /\ memory_obj # None
    /\ MemoryAssign("memory_add", MemoryAdd(memory_obj[1], rhs), rhs)

\* memory -= rhs
MemorySubCall(rhs) ==
    /\ memory_obj # None
    /\ MemoryAssign("memory_sub", MemorySub(memory_obj[1], rhs), rhs)

\* memory *= rhs
MemoryMulCall(rhs) ==
    /\ memory_obj # None
    /\ MemoryAssign("memory_mul", MemoryMul(memory_obj[1], rhs), rhs)

\* memory /= rhs, on a divisor that is not zero (Integer panics on zero)
MemoryDivCall(rhs) ==
    /\ memory_obj # None
    /\ rhs # 0
    /\ MemoryAssign("memory_div", MemoryDiv(memory_obj[1], rhs), rhs)

OptDigests == {None} \cup {Some(d) : d \in DigestSamples}

\* The memory of the default params: 64.
DefaultMemory == BalloonParamsMemory(BalloonParamsDefault).val

\* The memory of the params with every field at u32::max_value().
MaxMemory ==
    BalloonParamsMemory([s_cost |-> U32Max, t_cost |-> U32Max,
                         delta |-> U32Max]).val

\* The targets given to from_memory: every multiple of 32 up to past the
\* largest memory, and the neighbours of the default and largest memory.
MemoryTargets ==
    {32 * m : m \in 0..((MaxMemory \div 32) + 2)}
    \cup {63, 65, MaxMemory - 1, MaxMemory + 1}

\* The params of a hasher: valid ones, with s_cost = 1 and above, and ones
\* with one field below its bound.
HasherParams ==
    { [s_cost |-> 1, t_cost |-> 1, delta |-> 3],
      [s_cost |-> 1, t_cost |-> 3, delta |-> 4],
      [s_cost |-> 3, t_cost |-> 2, delta |-> 3],
      [s_cost |-> 0, t_cost |-> 1, delta |-> 3],
      [s_cost |-> 1, t_cost |-> 0, delta |-> 3],
      [s_cost |-> 3, t_cost |-> 2, delta |-> 2] }

\* The messages hashed
Msgs == {<<>>, <<1>>, <<2, 3>>}

\* The values given to s_cost: the small ones and those around 2^24.
SCosts == {0, 1, 2, 3, 16777216, 16777217, 16777219}

\* The values given to t_cost
TCosts == {0, 1, 2, 3}

\* The values given to delta
Deltas == {0, 2, 3, 4}

\* The bits given to PoWTarget::new and the difficulties given to PoW::new:
\* every u32 up to 65.
BitsRange == 0..(MaxBits + 2)

\* The digest one below the target of b bits: b zero bits, then ones, the
\* last bit zero.
DigestBelowTarget(b) == [PoWTargetNew(b).val EXCEPT ![DigestLen] = 254]

\* The digest one above the target of b >= 1 bits: b - 1 zero bits, a one,
\* then zeros.
DigestOverTarget(b) ==
    [DigestDefault EXCEPT ![((b - 1) \div 8) + 1] = Pow2(7 - ((b - 1) % 8))]

\* The digests compared with a target t: those next to it, one that
\* differs from it after the first eight bytes, and the two extremes.
DigestProbes(t) ==
    LET b == LeadingZerosFrom(t, 1, 8)
    IN  {t, [t EXCEPT ![9] = 0], DigestDefault, Rep(255, DigestLen)}
        \cup (IF b <= MaxBits THEN {DigestBelowTarget(b)} ELSE {})
        \cup (IF b >= 1 /\ b <= MaxBits THEN {DigestOverTarget(b)} ELSE {})

\* The values written to the difficulty field: every u32 up to 65.
DifficultyWrites == 0..(MaxBits + 2)

OptNonces == {None} \cup {Some(n) : n \in 0..NonceMax}

\* The calls of the API alone.
NextApi ==
    \/ \E s \in Salts, p \in ParamsSamples, d \in Difficulties : New(s, p, d)
    \/ MineCall
    \/ MineLoop
    \/ Verify
    \/ Validate

\* The API and the writes of the public result fields.
Next ==
    \/ \E s \in Salts, p \in ParamsSamples, d \in Difficulties : New(s, p, d)
    \/ MineCall
    \/ MineLoop
    \/ Verify
    \/ Validate
    \/ \E d \in OptDigests : SetDigest(d)
    \/ \E n \in OptNonces : SetNonce(n)

\* One PoW with the default params, its mining, and the writes of its
\* public difficulty field.
NextDifficulty ==
    \/ \E d \in Difficulties : New(DigestDefault, BalloonParamsDefault, d)
    \/ MineCall
    \/ MineLoop
    \/ \E d \in DifficultyWrites : SetDifficulty(d)
    \/ Target

\* Either one PoWTarget, its bits and the digests compared with it, or one
\* PoW of any difficulty with the default params, its target bits and its
\* mining.  The two objects share no state, so a behaviour has one of them.
NextTarget ==
    \/ pow = None /\ \E bits \in BitsRange : TargetNew(bits)
    \/ TargetObjBits
    \/ /\ target_obj # None
       /\ \E d \in DigestProbes(target_obj[1]) : Compare(d)
    \/ /\ target_obj = None
       /\ \E d \in BitsRange : New(DigestDefault, BalloonParamsDefault, d)
    \/ TargetBits
    \/ MineCall
    \/ MineLoop

\* One BalloonParams value, the writes of its public fields and the calls
\* on it.
NextParams ==
    \/ \E s \in SCosts, t \in TCosts, d \in Deltas : ParamsNew(s, t, d)
    \/ \E v \in SCosts : SetSCost(v)
    \/ \E v \in TCosts : SetTCost(v)
    \/ \E v \in Deltas : SetDelta(v)
    \/ ParamsValidate
    \/ ParamsMemory

\* No hash is computed on a BalloonParams value: the primitive is fixed.
InitNoHash == Init /\ \A k \in DOMAIN sha : sha[k] = DigestDefault

\* One BalloonHasher at a time, the writes of its public params and its
\* hash.
NextHasher ==
    \/ \E s \in Salts, f \in HasherParams : HasherNew(s, f)
    \/ \E f \in HasherParams : SetHasherParams(f)
    \/ \E msg \in Msgs : HasherHash(msg)

\* The calls of BalloonParams::from_memory.
NextFromMemory ==
    \/ \E target \in MemoryTargets : FromMemoryCall(target)
    \/ FromMemoryLoop

\* The targets given to the three from_memory constructors: those around
\* the default memory, some inside the search and those around the largest
\* memory.
CallerTargets ==
    {0, DefaultMemory - 1, DefaultMemory, DefaultMemory + 1,
     2 * DefaultMemory, 3 * DefaultMemory, 5 * DefaultMemory,
     MaxMemory - 1, MaxMemory, MaxMemory + 1}

\* The three from_memory constructors.  The objects share no state, so a
\* behaviour has calls of one of the three.
NextFromMemoryCallers ==
    \/ /\ last.op \in {"none", "from_memory"}
       /\ \E target \in CallerTargets : FromMemoryCall(target)
    \/ FromMemoryLoop
    \/ /\ last.op \in {"none", "hasher_from_memory"} /\ params_obj = None
       /\ \E s \in Salts, memory \in CallerTargets : HasherFromMemory(s, memory)
    \/ /\ last.op \in {"none", "pow_from_memory"} /\ params_obj = None
       /\ \E s \in Salts, memory \in CallerTargets, d \in Difficulties :
              NewFromMemory(s, memory, d)

\* The u32 values converted to Memory
U32Samples == {0, 1, 2, 3}

\* The i32 values converted to Memory
I32Samples == {0 - 2, 0 - 1, 0, 1, 2}

\* The strings parsed by from_string
StringSamples ==
    { <<"0">>, <<"5">>, <<"0", "3">>, <<"-", "4">>, <<"+", "2">>, <<"-", "0">>,
      <<>>, <<"-">>, <<"b", "l", "a">>, <<"1", "x">> }

\* The right operands of the arithmetic: values that zero(), one() and the
\* conversion of a u32 construct.
MemoryOperands ==
    {MemoryZero, MemoryOne} \cup {MemoryFrom(n) : n \in U32Samples}

\* One Memory value: its constructors and the arithmetic on it.
NextMemory ==
    \/ MemoryZeroCall
    \/ MemoryOneCall
    \/ \E n \in U32Samples : MemoryFromU32Call(n)
    \/ \E n \in I32Samples : MemoryFromI32Call(n)
    \/ \E s \in StringSamples : MemoryFromStringCall(s)
    \/ \E rhs \in MemoryOperands : MemoryAddCall(rhs)
    \/ \E rhs \in MemoryOperands : MemorySubCall(rhs)
    \/ \E rhs \in MemoryOperands : MemoryMulCall(rhs)
    \/ \E rhs \in MemoryOperands : MemoryDivCall(rhs)

\* The params of the hasher whose run is observed: the default ones, ones
\* that fill only, ones that mix no, one and two slots, and ones whose run
\* uses the counter more often than it has values.
RunParams ==
    { [s_cost |-> 1, t_cost |-> 1, delta |-> 3],
      [s_cost |-> 4, t_cost |-> 1, delta |-> 3],
      [s_cost |-> 2, t_cost |-> 2, delta |-> 3],
      [s_cost |-> 3, t_cost |-> 2, delta |-> 4],
      [s_cost |-> 4, t_cost |-> 2, delta |-> 3],
      [s_cost |-> 3, t_cost |-> 4, delta |-> 3],
      [s_cost |-> 1, t_cost |-> 0, delta |-> 3] }

\* One BalloonHasher, the writes of its public params and its hash, in
\* either build.
NextRun ==
    \/ \E f \in RunParams : HasherNew(DigestDefault, f)
    \/ \E f \in RunParams : SetHasherParams(f)
    \/ \E build \in Builds, msg \in Msgs : HasherHashBuilt(build, msg)

\* The values written to the params field of a PoW: valid ones and ones
\* that validate() rejects.
PoWParamsWrites ==
    { BalloonParamsDefault, [s_cost |-> 0, t_cost |-> 1, delta |-> 3] }

\* One PoW, the writes of its public fields and verify().
NextFields ==
    \/ New(DigestDefault, BalloonParamsDefault, MinDifficulty)
    \/ \E d \in OptDigests : SetDigest(d)
    \/ \E n \in OptNonces : SetNonce(n)
    \/ \E d \in Difficulties : SetDifficulty(d)
    \/ \E f \in PoWParamsWrites : SetPoWParams(f)
    \/ Verify

Spec == Init /\ [][Next]_vars

SpecFields == Init /\ [][NextFields]_vars

SpecRun == Init /\ [][NextRun]_vars

SpecMemory == InitNoHash /\ [][NextMemory]_vars

SpecFromMemoryCallers == InitNoHash /\ [][NextFromMemoryCallers]_vars

SpecFromMemory == InitNoHash /\ [][NextFromMemory]_vars

\* from_memory is sequential code: once called, its loop goes on running.
SpecFromMemoryFair == SpecFromMemory /\ WF_vars(FromMemoryLoop)

SpecHasher == Init /\ [][NextHasher]_vars

SpecParams == InitNoHash /\ [][NextParams]_vars

SpecDifficulty == Init /\ [][NextDifficulty]_vars

SpecTarget == Init /\ [][NextTarget]_vars

SpecApi == Init /\ [][NextApi]_vars

-----------------------------------------------------------------------------
(* Vocabulary of the claims *)

\* BalloonHasher{salt, params}.hash(salt || be64(n)) for the object p
HashOf(p, n) ==
    BalloonHasherHash([salt |-> p.salt, params |-> p.params],
                      p.salt \o BE64(n)).val

\* target(difficulty).digest() for the object p
TargetOf(p) == PoWTargetNew(p.difficulty).val

ValidFields(p) ==
    /\ p.difficulty >= 3 /\ p.difficulty <= 63
    /\ p.params.s_cost >= 1 /\ p.params.t_cost >= 1 /\ p.params.delta >= 3

Mined(o) == o # None /\ o[1].nonce # None /\ o[1].digest # None

Unmined(o) == o # None /\ o[1].nonce = None /\ o[1].digest = None

\* The last call was a mine() that stored a result.
MineStored == last.op = "mine" /\ last.res = "Ok" /\ last.arg # None

-----------------------------------------------------------------------------
(* C1..C10: the proof of work *)

\* C1: when mine() stores a result, the stored nonce n is the smallest nonce
\* whose Balloon digest of salt || be64(n) is below the target digest: every
\* smaller nonce has a digest >= the target, and the stored digest is the
\* digest of n.
C1_MineStoresSmallestNonce ==
    MineStored =>
        /\ Self.nonce = last.arg
        /\ Self.digest = Some(HashOf(Self, Self.nonce[1]))
        /\ DigestLt(Self.digest[1], TargetOf(Self))
        /\ \A n \in 0..(Self.nonce[1] - 1) :
               ~DigestLt(HashOf(Self, n), TargetOf(Self))

\* mine() stored the last nonce of the space, after rejecting all before it.
C1_Witness == MineStored /\ Self.nonce = Some(NonceMax)

\* C2: on an object built by new, when mine() returned Ok and left a digest,
\* the verify() that follows returns Ok(true) and the validate() that
\* follows returns Ok(()).
C2_VerifyAfterMine ==
    [][ (/\ last.op = "mine" /\ last.res = "Ok"
         /\ pc = "idle" /\ Self.digest # None)
        => /\ (last'.op = "verify" => last'.res = "Ok(true)")
           /\ (last'.op = "validate" => last'.res = "Ok") ]_vars

\* verify() returned Ok(true) on an object mined at a nonce above 0.
C2_Witness ==
    /\ last.op = "verify" /\ last.res = "Ok(true)"
    /\ Self.nonce # None /\ Self.nonce # Some(0)

\* C3: reached by new, mine, verify and validate alone, nonce is set if and
\* only if digest is set.
C3_NonceIffDigest ==
    pow # None => (Self.nonce = None <=> Self.digest = None)

\* Both fields are set.
C3_Witness == Mined(pow)

\* C4: verify() on an object with both fields set (and fields in range):
\* Err(InvalidDigest) without recomputing when the stored digest is not
\* below the target; else one recomputation, and Err(InvalidDigest) when it
\* differs from the stored digest, Ok(true) when it does not.
C4_VerifyMined ==
    (last.op = "verify" /\ Mined(pow) /\ ValidFields(Self)) =>
        IF ~DigestLt(Self.digest[1], TargetOf(Self))
        THEN last.res = "InvalidDigest" /\ last.hashes = 0
        ELSE IF HashOf(Self, Self.nonce[1]) # Self.digest[1]
        THEN last.res = "InvalidDigest" /\ last.hashes = 1
        ELSE last.res = "Ok(true)" /\ last.hashes = 1

\* verify() rejected, before any recomputation, the digest that equals the
\* target, stored beside a nonce whose digest is that same value.
C4_Witness ==
    /\ last.op = "verify" /\ Mined(pow)
    /\ last.res = "InvalidDigest" /\ last.hashes = 0
    /\ Self.digest[1] = TargetOf(Self)
    /\ HashOf(Self, Self.nonce[1]) = Self.digest[1]

\* C5: when the digest of a just mined object is replaced by a different
\* value, verify() on it fails with InvalidDigest.
C5_TamperedDigestRejected ==
    [][ (/\ MineStored /\ pc = "idle"
         /\ last'.op = "set"
         /\ Self'.nonce = Self.nonce
         /\ Self'.digest # None /\ Self'.digest # Self.digest)
        => PoWVerify(Self').res = "InvalidDigest" ]_vars

\* verify() recomputed and rejected a digest that is below the target but is
\* not the digest of the stored nonce, whose own digest is accepted.
C5_Witness ==
    /\ last.op = "verify" /\ Mined(pow)
    /\ last.res = "InvalidDigest" /\ last.hashes = 1
    /\ DigestLt(HashOf(Self, Self.nonce[1]), TargetOf(Self))
    /\ Self.digest[1] = Target3Less

\* C6: under new, mine, verify and validate a Mined object stays Mined; the
\* result fields change only in the step of mine() that accepts a nonce,
\* whose digest is below the target; verify() and validate() change no
\* field.
C6_NoBackTransition ==
    [][ /\ Mined(pow) => Mined(pow')
        /\ (pow # None /\ pow' # pow)
           => /\ pc = "mining" /\ pc' = "idle"
              /\ last'.op = "mine" /\ last'.res = "Ok"
              /\ Self' = [Self EXCEPT !.nonce = Self'.nonce,
                                      !.digest = Self'.digest]
              /\ Mined(pow')
              /\ DigestLt(Self'.digest[1], target_digest)
        /\ (last' # last /\ last'.op \in {"verify", "validate"})
           => pow' = pow ]_vars

\* verify() returned on a Mined object of difficulty 63, and left it Mined.
C6_Witness ==
    /\ last.op = "verify" /\ Mined(pow) /\ last.res = "Ok(true)"
    /\ Self.difficulty = 63

\* C7: mine() terminates, its loop being bounded by the nonce space: it
\* starts at nonce 0; an iteration that does not return rejected its nonce
\* and goes to the next one, which is never past the last; mine() returns at
\* the first accepted nonce or after the last, so after at most NonceMax + 1
\* iterations; when the last nonce is rejected it returns Ok and leaves the
\* object as it was.
C7_MineTerminates ==
    [][ /\ nonce <= NonceMax /\ nonce' <= NonceMax
        /\ (pc = "idle" /\ pc' = "mining") => nonce' = 0
        /\ (pc = "mining" /\ pc' = "mining")
           => /\ nonce' = nonce + 1
              /\ ~DigestLt(HashOf(Self, nonce), target_digest)
        /\ (pc = "mining" /\ pc' = "idle" /\ last'.res = "Ok")
           => /\ last'.hashes = nonce + 1
              /\ \/ last'.arg = Some(nonce)
                 \/ last'.arg = None /\ nonce = NonceMax /\ pow' = pow
        /\ (pc = "mining" /\ nonce = NonceMax
            /\ ~DigestLt(HashOf(Self, nonce), target_digest))
           => /\ pc' = "idle" /\ last'.op = "mine" /\ last'.res = "Ok"
              /\ pow' = pow ]_vars

\* mine() tried every nonce, returned Ok and left the object Unmined.
C7_Witness ==
    /\ last.op = "mine" /\ last.res = "Ok" /\ last.arg = None
    /\ last.hashes = NonceMax + 1
    /\ Unmined(pow)

\* C8: verify() on an Unmined object returns Ok(false), no error.
C8_VerifyUnmined ==
    (last.op = "verify" /\ Unmined(pow)) =>
        last.res = "Ok(false)" /\ last.hashes = 0

\* verify() returned on an Unmined object.
C8_Witness == last.op = "verify" /\ Unmined(pow)

\* C9: validate() returns Err(NotFound) exactly when verify() returns
\* Ok(false), Ok(()) exactly when verify() returns Ok(true), and the error
\* of verify() otherwise; on an object with both fields None it is NotFound.
C9_ValidateFollowsVerify ==
    last.op = "validate" =>
        LET v == PoWVerify(Self).res
        IN  /\ (last.res = "NotFound" <=> v = "Ok(false)")
            /\ (last.res = "Ok" <=> v = "Ok(true)")
            /\ (v \notin {"Ok(true)", "Ok(false)"} => last.res = v)
            /\ (Unmined(pow) => last.res = "NotFound")

\* validate() failed with NotFound on an object with both fields None.
C9_Witness ==
    last.op = "validate" /\ last.res = "NotFound" /\ Unmined(pow)

\* C10: new fails with OutOfBound if and only if the difficulty is below 3
\* or above 63; with a difficulty in range it fails with InvalidArgument on
\* invalid params; otherwise it succeeds, and the object is Unmined and
\* carries the salt, params and difficulty given.
C10_NewChecksItsArguments ==
    last.op = "new" =>
        LET salt       == last.arg[1]
            params     == last.arg[2]
            difficulty == last.arg[3]
            inRange    == difficulty >= 3 /\ difficulty <= 63
            validP     == /\ params.s_cost # 0 /\ params.t_cost # 0
                          /\ params.delta >= 3
        IN  /\ (last.res = "OutOfBound" <=> ~inRange)
            /\ (inRange /\ ~validP) => last.res = "InvalidArgument"
            /\ (last.res # "Ok") => pow = None
            /\ (inRange /\ validP) =>
                   /\ last.res = "Ok"
                   /\ pow = Some([salt |-> salt, params |-> params,
                                  difficulty |-> difficulty,
                                  nonce |-> None, digest |-> None])

\* new succeeded with the largest difficulty, on the second salt.
C10_Witness ==
    /\ last.op = "new" /\ last.res = "Ok"
    /\ Self.difficulty = 63 /\ Self.salt # DigestDefault
    /\ Self.params.s_cost = 3

-----------------------------------------------------------------------------
(* C11..C20: the target, the params, the hasher and the memory *)

InRange(difficulty) == difficulty >= 3 /\ difficulty <= 63

\* C11: while the difficulty field is outside [3,63], target() and mine()
\* return Err(OutOfBound), and mine() returns before its loop, computes no
\* hash and leaves nonce and digest as they were.
C11_DifficultyRevalidated ==
    [][ (pc = "idle" /\ pow # None /\ ~InRange(Self.difficulty)) =>
          /\ pc' = "idle"
          /\ last'.op = "target" => last'.res = "OutOfBound"
          /\ last'.op = "mine"
             => /\ last'.res = "OutOfBound" /\ last'.hashes = 0
                /\ Self'.nonce = Self.nonce /\ Self'.digest = Self.digest ]_vars

\* mine() failed with OutOfBound on a Mined object whose difficulty was set
\* to 64, and the object is still Mined.
C11_Witness ==
    /\ last.op = "mine" /\ last.res = "OutOfBound" /\ last.hashes = 0
    /\ Mined(pow) /\ Self.difficulty = 64

\* The leading zero bits of a digest.
LeadingZeroBits(d) == LeadingZerosFrom(d, 1, DigestLen)

\* C12: for every bits in [0,63], a digest below the digest of
\* PoWTarget::new(bits) has at least `bits` leading zero bits; and the
\* digest that mine() stores has at least `difficulty` leading zero bits.
C12_BelowTargetHasZeroBits ==
    /\ (last.op = "lt" /\ last.res = "true") =>
           \A bits \in 0..63 :
               target_obj = Some(PoWTargetNew(bits).val)
                   => LeadingZeroBits(last.arg[1]) >= bits
    /\ MineStored => LeadingZeroBits(Self.digest[1]) >= Self.difficulty

\* A digest with exactly 63 leading zero bits was found below the target of
\* 63 bits.
C12_Witness ==
    /\ last.op = "lt" /\ last.res = "true"
    /\ target_obj = Some(PoWTargetNew(63).val)
    /\ LeadingZeroBits(last.arg[1]) = 63

\* C13: PoWTarget::new(bits) succeeds exactly for bits <= 63 and fails with
\* OutOfBound above; bits() called on the target that new(bits) returned gives
\* bits; target_bits() of a PoW of difficulty in [3,63] gives the difficulty.
C13_BitsRoundTrip ==
    [][ /\ last'.op = "target_new"
           => /\ last'.res = "Ok" <=> last'.arg[1] <= 63
              /\ last'.res # "Ok"
                 => last'.res = "OutOfBound" /\ target_obj' = None
        /\ (last.op = "target_new" /\ last.res = "Ok" /\ last'.op = "bits")
           => last'.arg = last.arg
        /\ (last'.op = "target_bits" /\ InRange(Self.difficulty))
           => last'.res = "Ok" /\ last'.arg = Some(Self.difficulty) ]_vars

\* bits() returned 63 on the target of 63 bits.
C13_Witness ==
    /\ last.op = "bits" /\ last.arg = Some(63)
    /\ target_obj = Some(PoWTargetNew(63).val)

\* The condition of s, t, d that BalloonParams documents as invalid.
InvalidParams(s, t, d) == s = 0 \/ t = 0 \/ d < 3

\* C14: BalloonParams::new(s, t, d) fails with InvalidArgument if and only if
\* s = 0 or t = 0 or d < 3, and otherwise returns the params with these three
\* fields, which pass validate(); validate() fails with InvalidArgument if
\* and only if the same condition holds of the fields, as they are then.
C14_ParamsBounds ==
    /\ last.op = "params_new" =>
           LET s == last.arg[1]
               t == last.arg[2]
               d == last.arg[3]
           IN  /\ last.res = "InvalidArgument" <=> InvalidParams(s, t, d)
               /\ last.res = "Ok" <=> ~InvalidParams(s, t, d)
               /\ last.res # "Ok" => params_obj = None
               /\ last.res = "Ok"
                  => /\ params_obj = Some([s_cost |-> s, t_cost |-> t,
                                          delta |-> d])
                     /\ BalloonParamsValidate(params_obj[1]) = Ok(TRUE)
    /\ last.op = "params_validate" =>
           LET f == params_obj[1]
           IN  /\ last.res = "InvalidArgument"
                      <=> InvalidParams(f.s_cost, f.t_cost, f.delta)
               /\ last.res = "Ok"
                      <=> ~InvalidParams(f.s_cost, f.t_cost, f.delta)

\* validate() failed on params whose t_cost alone is below its bound.
C14_Witness ==
    /\ last.op = "params_validate" /\ last.res = "InvalidArgument"
    /\ params_obj[1].s_cost = 1 /\ params_obj[1].t_cost = 0
    /\ params_obj[1].delta = 3

\* C15: hash() on a hasher whose params have s_cost = 0, t_cost = 0 or
\* delta < 3 fails with the error of the validation of the params,
\* InvalidArgument, gives no digest, allocates no buffer slot and calls the
\* hash primitive not once; BalloonHasher::new fails on such params with the
\* same error and builds no hasher.
C15_HashValidatesFirst ==
    /\ last.op = "hash" =>
           LET f == hasher_obj[1].params
           IN  InvalidParams(f.s_cost, f.t_cost, f.delta)
                   => /\ last.res = "InvalidArgument"
                      /\ Err(last.res) = BalloonParamsValidate(f)
                      /\ last.arg[2] = None
                      /\ last.arg[3] = 0
                      /\ last.hashes = 0
    /\ last.op = "hasher_new" =>
           LET f == last.arg[2]
           IN  InvalidParams(f.s_cost, f.t_cost, f.delta)
                   => /\ last.res = "InvalidArgument"
                      /\ Err(last.res) = BalloonParamsValidate(f)
                      /\ hasher_obj = None

\* hash() failed on a hasher built with valid params whose delta is now 2.
C15_Witness ==
    /\ last.op = "hash" /\ last.res = "InvalidArgument"
    /\ hasher_obj[1].params = [s_cost |-> 3, t_cost |-> 2, delta |-> 2]

C17_OneSlotIsOneHash ==
    (/\ last.op = "hash"
     /\ hasher_obj[1].params.s_cost = 1
     /\ hasher_obj[1].params.t_cost >= 1
     /\ hasher_obj[1].params.delta >= 3)
    => /\ last.res = "Ok"
       /\ last.arg[2] =
              Some(DigestHash(BE32(0) \o last.arg[1] \o hasher_obj[1].salt))
       /\ last.arg[3] = 1
       /\ last.hashes = 1

\* hash() returned a digest other than the default one with s_cost = 1,
\* t_cost = 3 and delta = 4, on the second salt.
C17_Witness ==
    /\ last.op = "hash" /\ last.res = "Ok"
    /\ hasher_obj[1].params = [s_cost |-> 1, t_cost |-> 3, delta |-> 4]
    /\ hasher_obj[1].salt # DigestDefault
    /\ last.arg[2] # Some(DigestDefault)

\* C18: on valid params memory() returns exactly
\* 64 * (s_cost + (t_cost - 1) * (1 + 2 * (delta - 1))), whatever the u32
\* values of the fields; on invalid params it fails with InvalidArgument.
C18_MemoryIsExact ==
    last.op = "params_memory" =>
        LET f == params_obj[1]
        IN  IF InvalidParams(f.s_cost, f.t_cost, f.delta)
            THEN last.res = "InvalidArgument"
            ELSE /\ last.res = "Ok"
                 /\ last.arg = Some(64 * (f.s_cost + (f.t_cost - 1)
                                          * (1 + 2 * (f.delta - 1))))

\* from_memory has returned, and no later call of it is under way: last
\* holds its result and target, params_obj the params returned.
FromMemoryReturned == last.op = "from_memory" /\ pc = "idle"

\* C19: when from_memory(target) returns Ok(p), p is valid and p.memory() is
\* at least the target; for the target one above the memory of the default
\* params it returns params whose memory is above that of the default.
C19_FromMemoryReachesTarget ==
    FromMemoryReturned =>
        LET target == last.arg[1]
        IN  /\ last.res = "Ok" =>
                   LET f == params_obj[1]
                   IN  /\ f.s_cost >= 1 /\ f.t_cost >= 1 /\ f.delta >= 3
                       /\ BalloonParamsMemory(f).ok
                       /\ BalloonParamsMemory(f).val >= target
            /\ target = DefaultMemory + 1 =>
                   /\ last.res = "Ok"
                   /\ BalloonParamsMemory(params_obj[1]).val > DefaultMemory

\* from_memory returned params with every field above its default, for a
\* target that their memory exceeds.
C19_Witness ==
    /\ FromMemoryReturned /\ last.res = "Ok"
    /\ params_obj[1].s_cost > 1 /\ params_obj[1].t_cost > 1
    /\ params_obj[1].delta > 3
    /\ BalloonParamsMemory(params_obj[1]).val > last.arg[1]

\* C20 as claimed: for a target below or equal to the memory of the default
\* params, from_memory succeeds and returns the default params.
C20_Claimed ==
    (FromMemoryReturned /\ last.arg[1] <= DefaultMemory) =>
        /\ last.res = "Ok"
        /\ params_obj = Some(BalloonParamsDefault)

\* C20, amended: for a target below the memory of the default params
\* from_memory fails with InvalidArgument and returns no params; for the
\* target equal to it, from_memory succeeds and returns the default params.
C20_FromMemoryAtOrBelowDefault ==
    FromMemoryReturned =>
        /\ last.arg[1] < DefaultMemory =>
               last.res = "InvalidArgument" /\ params_obj = None
        /\ last.arg[1] = DefaultMemory =>
               last.res = "Ok" /\ params_obj = Some(BalloonParamsDefault)

\* from_memory failed on the target one below the default memory.
C20_Witness ==
    /\ FromMemoryReturned /\ last.arg = Some(DefaultMemory - 1)
    /\ last.res = "InvalidArgument"

-----------------------------------------------------------------------------
(* Claims C21..C30 *)

\* C21: BalloonParams::from_memory fails on the target one below the memory
\* of the default params, with InvalidArgument, and BalloonHasher::from_memory
\* and PoW::from_memory return that error for the same target, whatever the
\* salt and the difficulty, and construct nothing.
C21_FromMemoryErrorPropagates ==
    /\ (FromMemoryReturned /\ last.arg[1] = DefaultMemory - 1) =>
           last.res = "InvalidArgument" /\ params_obj = None
    /\ (last.op = "hasher_from_memory" /\ last.arg[1] = DefaultMemory - 1) =>
           last.res = "InvalidArgument" /\ hasher_obj = None
    /\ (last.op = "pow_from_memory" /\ last.arg[1] = DefaultMemory - 1) =>
           last.res = "InvalidArgument" /\ pow = None

\* PoW::from_memory failed on the target one below the default memory, with
\* a difficulty that PoW::new accepts.
C21_Witness ==
    /\ last.op = "pow_from_memory" /\ last.arg[1] = DefaultMemory - 1
    /\ InRange(last.arg[3])
    /\ last.res = "InvalidArgument"

\* C22: every Memory value is a nonnegative integer, whether it comes from
\* zero(), one(), a conversion, from_string or the arithmetic on such values.
C22_CostNonNegative ==
    memory_obj # None => memory_obj[1] >= 0

\* The triple after k single increments from (1, 1, 3) in the cyclic order
\* s_cost, t_cost, delta, none of them past u32::max_value().
Capped(x) == IF x > U32Max THEN U32Max ELSE x

TripleAfter(k) ==
    [s_cost |-> Capped(1 + ((k + 2) \div 3)),
     t_cost |-> Capped(1 + ((k + 1) \div 3)),
     delta  |-> Capped(3 + (k \div 3))]

\* The increments after which the three fields are at u32::max_value().
LastIncrement == 3 * (U32Max - 1)

\* C23: for a target above the memory of the default params, from_memory
\* returns the first triple of the sequence (1,1,3), (2,1,3), (2,2,3),
\* (2,2,4), (3,2,4), ... whose memory() reaches the target: every earlier
\* triple of the sequence has memory() below it; and inside the search the
\* params are a triple of the sequence that ends an iteration, with
\* every triple up to it below the target.
C23_FirstTripleInOrder ==
    /\ (FromMemoryReturned /\ last.res = "Ok"
           /\ last.arg[1] > DefaultMemory) =>
           \E k \in 1..LastIncrement :
               /\ params_obj[1] = TripleAfter(k)
               /\ BalloonParamsMemory(TripleAfter(k)).val >= last.arg[1]
               /\ \A j \in 0..(k - 1) :
                      BalloonParamsMemory(TripleAfter(j)).val < last.arg[1]
    /\ pc = "searching" =>
           \E i \in 0..(U32Max - 1) :
               /\ params_obj[1] = TripleAfter(3 * i)
               /\ \A j \in 0..(3 * i) :
                      BalloonParamsMemory(TripleAfter(j)).val < target_memory[1]

\* from_memory returned the triple (3, 3, 4), which the fifth increment
\* gives: the search stopped inside its second iteration, after t_cost.
C23_Witness ==
    /\ FromMemoryReturned /\ last.res = "Ok"
    /\ last.arg[1] > DefaultMemory
    /\ params_obj[1] = [s_cost |-> 3, t_cost |-> 3, delta |-> 4]
    /\ params_obj[1] = TripleAfter(5)

\* The fields of BalloonParams.
ParamsFields == {"s_cost", "t_cost", "delta"}

\* A step of the search leaves each field alone or adds 1 to it; a field at
\* u32::max_value() stays there.
GrowsSaturating ==
    (pc = "searching" /\ params_obj' # None) =>
        \A f \in ParamsFields :
            LET x == params_obj[1][f]
                y == params_obj'[1][f]
            IN  /\ y \in {x, x + 1}
                /\ y <= U32Max
                /\ x = U32Max => y = U32Max

\* A step of the search that fails with NotFound has brought the three
\* fields to u32::max_value(), and the memory there is below the target.
NotFoundAtSaturation ==
    (pc = "searching" /\ pc' = "idle" /\ last'.res = "NotFound") =>
        LET p == Incremented(Incremented(Incremented(params_obj[1], 1), 2), 3)
        IN  /\ \A f \in ParamsFields : p[f] = U32Max
            /\ BalloonParamsMemory(p).val < target_memory[1]

\* C24: in from_memory no field grows past u32::max_value() (its increment
\* becomes 0 there), the search returns for every target, and it returns
\* NotFound exactly when the three fields have reached u32::max_value() with
\* memory() still below the target.
C24_SaturatesAndTerminates ==
    /\ [](params_obj # None =>
             \A f \in ParamsFields : params_obj[1][f] <= U32Max)
    /\ [][GrowsSaturating]_vars
    /\ [][NotFoundAtSaturation]_vars
    /\ [](FromMemoryReturned =>
             (last.res = "NotFound" <=> last.arg[1] > MaxMemory))
    /\ (pc = "searching") ~> (pc = "idle")

\* from_memory failed with NotFound on the target one above the memory of
\* the params with every field at u32::max_value().
C24_Witness ==
    /\ FromMemoryReturned /\ last.res = "NotFound"
    /\ last.arg[1] = MaxMemory + 1
    /\ params_obj = None

\* hash() has run on valid params in some build: last holds its result and
\* the uses of the counter it made.
RanOnValid ==
    /\ last.op = "hash_built"
    /\ BalloonParamsValidate(hasher_obj[1].params).ok

\* C25: in one call of hash() on valid params the k-th use of the counter
\* (k from 0) writes the prefix k, so that the prefixes start at 0, increase
\* strictly and are never shared by two uses, and the call returns its
\* digest: the counter never overflows.
C25_CounterNeverWraps ==
    RanOnValid =>
        /\ last.res = "Ok"
        /\ \A k \in 1..Len(last.arg[3]) : last.arg[3][k].prefix = k - 1
        /\ \A j, k \in 1..Len(last.arg[3]) :
               j < k => last.arg[3][j].prefix < last.arg[3][k].prefix

\* The uses of the counter that the mix phase of the last hash() made.
MixUses ==
    {last.arg[3][k] : k \in {j \in 1..Len(last.arg[3]) :
                                 last.arg[3][j].phase = "mix"}}

\* The slots that a use touches: those it reads and the one it writes.
Touched(u) == u.reads \cup (IF u.write = -1 THEN {} ELSE {u.write})

\* C26 as claimed: in the mix phase m is strictly between 1 and s_cost - 1,
\* and the loop body neither reads nor writes the slot 0 or the slot
\* s_cost - 1.
C26_Claimed ==
    RanOnValid =>
        LET s_cost == hasher_obj[1].params.s_cost
        IN  \A u \in MixUses :
                /\ 1 < u.m /\ u.m < s_cost - 1
                /\ 0 \notin Touched(u)
                /\ (s_cost - 1) \notin Touched(u)

\* C26, amended: in the mix phase m runs from 1, included, to s_cost - 1,
\* excluded; the loop body writes the slot m alone, so never the slot 0 or
\* the slot s_cost - 1; it reads the slots m - 1, m and `other`, all of them
\* slots of the buffer, and with three slots or more and t_cost >= 2 it
\* reads the slot 0 as buf[m - 1] at m = 1.
C26_MixWritesInnerSlots ==
    RanOnValid =>
        LET s_cost == hasher_obj[1].params.s_cost
            t_cost == hasher_obj[1].params.t_cost
        IN  /\ \A u \in MixUses :
                   /\ 1 <= u.m /\ u.m < s_cost - 1
                   /\ u.write \in {-1, u.m}
                   /\ u.write # 0 /\ u.write # s_cost - 1
                   /\ u.reads \subseteq 0..(s_cost - 1)
            /\ (s_cost >= 3 /\ t_cost >= 2) =>
                   \E u \in MixUses : u.m = 1 /\ 0 \in u.reads /\ u.write = 1

\* hash() returned on four slots after a mix phase that went through m = 1
\* and m = 2 and read both the slot 0 and the last slot.
C26_Witness ==
    /\ RanOnValid /\ last.res = "Ok"
    /\ hasher_obj[1].params.s_cost = 4
    /\ \E u \in MixUses : u.m = 1 /\ 0 \in u.reads
    /\ \E u \in MixUses : u.m = 2 /\ u.write = 2
    /\ \E u \in MixUses : 3 \in u.reads

\* The hasher of the last hash() with t_cost = 1 and delta = 3.
FillOnly(h) == [h EXCEPT !.params = [s_cost |-> h.params.s_cost,
                                     t_cost |-> 1, delta |-> 3]]

\* C27: the mix phase writes neither the last slot nor the slot 0, so the
\* digest that hash(msg) returns on valid params is the one the fill phase
\* left in the last slot, and it is the digest that hash(msg) returns with
\* the same salt and s_cost, t_cost = 1 and delta = 3.
C27_DigestIgnoresTCostAndDelta ==
    (RanOnValid /\ last.res = "Ok") =>
        LET h   == hasher_obj[1]
            msg == last.arg[1]
        IN  /\ \A u \in MixUses :
                   u.write # h.params.s_cost - 1 /\ u.write # 0
            /\ last.arg[2] =
                   Some(FillLoop(h, FillFirst(h, msg), 1).buf[h.params.s_cost - 1])
            /\ BalloonHasherHashBuilt(last.arg[4], FillOnly(h), msg).result
                   = Ok(last.arg[2][1])

\* hash() returned a digest other than the default one after mixing a slot
\* of three in one round with delta = 4.
C27_Witness ==
    /\ RanOnValid /\ last.res = "Ok"
    /\ hasher_obj[1].params = [s_cost |-> 3, t_cost |-> 2, delta |-> 4]
    /\ \E u \in MixUses : u.write = 1
    /\ last.arg[2] # Some(DigestDefault)

\* The uses of the counter that the last hash() made.
Uses == {last.arg[3][k] : k \in 1..Len(last.arg[3])}

\* C28: hash() runs on valid params only, where s_cost - 1, t_cost - 1 and
\* delta - 1 do not underflow; every slot it reads or writes, buf[m - 1],
\* buf[m] and buf[other], is a slot of the buffer; m - 1 does not
\* underflow; and the sum of the 64 bytes of a digest is at most
\* 64 * 255 = 16320, which a u32 holds.
C28_AccessesInBounds ==
    /\ RanOnValid => last.arg[3] # <<>>
    /\ (last.op = "hash_built" /\ last.arg[3] # <<>>) =>
           LET f == hasher_obj[1].params
           IN  /\ f.s_cost - 1 >= 0 /\ f.t_cost - 1 >= 0 /\ f.delta - 1 >= 0
               /\ \A u \in Uses :
                      /\ Touched(u) \subseteq 0..(f.s_cost - 1)
                      /\ u.m \in 0..(f.s_cost - 1)
                      /\ u.reads # {} => u.m - 1 >= 0
                      /\ u.other_sum <= DigestLen * 255

\* hash() returned after a mix phase in which a byte sum above the number
\* of slots chose the slot read.
C28_Witness ==
    /\ RanOnValid /\ last.res = "Ok"
    /\ \E u \in MixUses : u.other_sum > hasher_obj[1].params.s_cost
    /\ \E u \in MixUses : u.reads \ {u.m, u.m - 1} # {}

\* C29: on a PoW with one of nonce and digest set, verify() looks at the
\* digest first.  Without a digest it returns Ok(false) whatever the nonce,
\* the difficulty and the params are, and computes no hash.  With a digest
\* and no nonce it compares the digest with the target and computes no hash
\* and looks at no params: InvalidDigest if the digest is not below the
\* target, Ok(false) if it is (and OutOfBound if the difficulty, written
\* since, has no target).  Ok(true) is returned only with both fields set.
C29_VerifyDigestFirst ==
    last.op = "verify" =>
        /\ Self.digest = None =>
               last.res = "Ok(false)" /\ last.hashes = 0
        /\ (Self.digest # None /\ Self.nonce = None) =>
               /\ last.hashes = 0
               /\ IF ~InRange(Self.difficulty) THEN last.res = "OutOfBound"
                  ELSE IF DigestGe(Self.digest[1], TargetOf(Self))
                       THEN last.res = "InvalidDigest"
                  ELSE last.res = "Ok(false)"
        /\ last.res = "Ok(true)" =>
               Self.digest # None /\ Self.nonce # None

\* verify() returned InvalidDigest on a PoW with the digest that is the
\* target itself, no nonce, and params that validate() rejects.
C29_Witness ==
    /\ last.op = "verify" /\ last.res = "InvalidDigest"
    /\ Self.digest = Some(Target3) /\ Self.nonce = None
    /\ Self.difficulty = MinDifficulty
    /\ ~BalloonParamsValidate(Self.params).ok

\* C30: mine() on a PoW that an earlier mine() has Mined, its salt, params
\* and difficulty unchanged, starts again at nonce 0 and returns Ok with
\* the same nonce and digest stored, after the same number of hashes: the
\* object after mine(); mine() is the object after one mine().
C30_MineIdempotent ==
    [][ /\ (pc = "idle" /\ pc' = "mining") => nonce' = 0
        /\ (pc = "mining" /\ pc' = "idle" /\ Mined(pow))
           => /\ pow' = pow
              /\ last'.op = "mine" /\ last'.res = "Ok"
              /\ last'.arg = Self.nonce
              /\ last'.hashes = Self.nonce[1] + 1 ]_vars

\* A second mine() is under way on a PoW Mined with nonce 2: it started
\* again at 0 and is at nonce 1.
C30_Witness ==
    /\ pc = "mining" /\ Mined(pow)
    /\ Self.nonce = Some(2) /\ nonce = 1

====
